---- MODULE Spec2Model ----
(***************************************************************************)
(* Model of img_color.py: Picture (k-means colour profile of one image,    *)
(* its .npz record) and Collection (the pass over the picture folder that  *)
(* builds the list of Pictures and keeps pic_stats, and get_closest).      *)
(*                                                                         *)
(* Text is modelled as a sequence of tokens: a token is a run of           *)
(* characters without '.', '/' or '\', or one of these three characters.   *)
(* A path is the sequence of its components, each a token sequence.        *)
(***************************************************************************)
EXTENDS Integers, Sequences, FiniteSets, TLC

VARIABLES
    os,         \* the host the program runs on: "posix" or "nt"
    images,     \* the image files under the picture folder: path -> array shape
    cache,      \* the files of pic_stats: path -> record
    pictures,   \* Collection.pictures of the last constructed Collection
    status,     \* "none" (no pass yet), "ok" (__init__ returned), "raised"
    clustered,  \* the paths Picture.cluster was called for in the last pass
    exported,   \* the record files export_stats wrote in the last pass
    reads,      \* the paths make_image read in the last pass
    since,      \* the folder changes made so far, each with the number of passes before it
    passes,     \* the number of passes run
    failed,     \* the image whose turn raised in the last pass, and pic_stats before that turn
    kmeans,     \* what cv2.kmeans returns for the one Picture built from a path
    made,       \* the outcome of Picture(path=...)
    loaded,     \* the outcome of Picture(stats=...)
    built,      \* the last call Picture(path, stats): its arguments and outcome
    picked,     \* the colours the user picked, one per get_closest call
    answers     \* the outcomes of the get_closest calls, in order

vars == <<os, images, cache, pictures, status, clustered, exported, reads, since, passes, failed,
          kmeans, made, loaded, built, picked, answers>>

\* the state of a run of passes over a folder
passVars == <<status, clustered, exported, reads, since, passes, failed>>

\* the state of one Picture built, written and read back
pictureVars == <<kmeans, made, loaded, built>>

\* the state of the queries
queryVars == <<picked, answers>>

-----------------------------------------------------------------------------
(* Bounds *)

\* the largest number of image files present at once
MaxImages == 2
\* the largest number of synchronization passes in a behaviour
MaxPasses == 2
\* the largest number of folder changes in a behaviour
MaxChanges == 1

-----------------------------------------------------------------------------
(* Text and pathlib *)

Last(s) == s[Len(s)]

Front(s) == SubSeq(s, 1, Len(s) - 1)

MaxOf(S) == CHOOSE x \in S : \A y \in S : y <= x

\* os.sep
Sep(o) == IF o = "nt" THEN "\\" ELSE "/"

\* the characters pathlib splits a string at: PureWindowsPath takes both
Seps(o) == IF o = "nt" THEN {"/", "\\"} ELSE {"/"}

RECURSIVE Join(_, _)
Join(p, sep) ==
    IF Len(p) = 0 THEN <<>>
    ELSE IF Len(p) = 1 THEN p[1]
    ELSE p[1] \o <<sep>> \o Join(Tail(p), sep)

\* str(path)
PathStr(o, p) == Join(p, Sep(o))

\* path.as_posix()
AsPosix(p) == Join(p, "/")

RECURSIVE Split(_, _, _, _)
Split(s, seps, cur, acc) ==
    IF Len(s) = 0 THEN (IF cur = <<>> THEN acc ELSE Append(acc, cur))
    ELSE IF Head(s) \in seps
         THEN Split(Tail(s), seps, <<>>, IF cur = <<>> THEN acc ELSE Append(acc, cur))
         ELSE Split(Tail(s), seps, Append(cur, Head(s)), acc)

\* Path(string)
PathOf(o, s) == Split(s, Seps(o), <<>>, <<>>)

\* path.name
Name(p) == Last(p)

\* name.rfind('.'), 1-based, 0 when there is none
RFindDot(name) ==
    LET I == {i \in 1..Len(name) : name[i] = "."}
    IN  IF I = {} THEN 0 ELSE MaxOf(I)

\* path.suffix
Suffix(p) ==
    LET name == Name(p)
        i == RFindDot(name)
    IN  IF i > 1 /\ i < Len(name) THEN SubSeq(name, i, Len(name)) ELSE <<>>

\* path.with_suffix(suf)
WithSuffix(p, suf) ==
    LET name == Name(p)
        old == Suffix(p)
        stem == IF old = <<>> THEN name ELSE SubSeq(name, 1, Len(name) - Len(old))
    IN  Append(Front(p), stem \o suf)

\* path / name
Child(p, name) == Append(p, name)

\* string.endswith(suf)
EndsWith(s, suf) ==
    /\ Len(s) >= Len(suf)
    /\ SubSeq(s, Len(s) - Len(suf) + 1, Len(s)) = suf

NPZ == <<".", "npz">>

-----------------------------------------------------------------------------
(* Picture *)

\* cluster(self, n_colors=5)
n_colors == 5

\* None, for a path, a stats file or a profile field
None == <<>>

NoPicture == [path |-> None, palette |-> None, counts |-> None, dominant |-> None]

\* a constructor call that raised `e`, having tried to read the files `rd`
\* and having called cluster or not
Raised(e, rd, cl) == [err |-> e, pic |-> NoPicture, reads |-> rd, clustered |-> cl]

Sum(f) ==
    LET RECURSIVE S(_)
        S(i) == IF i = 0 THEN 0 ELSE f[i] + S(i - 1)
    IN  S(Len(f))

\* make_image: io.imread(self.path)[:, :, :], then rgba2rgb when shape[2] == 4.
\* An image file is modelled by the shape of the array imread gives for it:
\* <<h, w>> for a single-channel image, <<h, w, c>> otherwise.
MakeImage(imgs, path) ==
    IF path \notin DOMAIN imgs THEN [err |-> "FileNotFoundError", shape |-> None]
    ELSE LET sh == imgs[path]
         IN  IF Len(sh) < 3 THEN [err |-> "IndexError", shape |-> None]
             ELSE IF sh[3] = 4 THEN [err |-> "", shape |-> <<sh[1], sh[2], 3>>]
             ELSE [err |-> "", shape |-> sh]

\* the number of rows of self.img.reshape(-1, 3); -1 when reshape raises
Reshape3(shape) ==
    LET total == shape[1] * shape[2] * shape[3]
    IN  IF total % 3 = 0 THEN total \div 3 ELSE -1

\* np.unique(labels)[0] taken for the counts: the values that occur in labels
UniqueValues(labels) ==
    LET vals == {labels[i] : i \in 1..Len(labels)}
        RECURSIVE Build(_)
        Build(V) ==
            IF V = {} THEN <<>>
            ELSE LET m == MaxOf(V) IN Append(Build(V \ {m}), m)
    IN  Build(vals)

\* np.unique(labels, return_counts=True)[1]: the number of occurrences of each
\* value that occurs in labels, in increasing order of the values
UniqueCounts(labels) ==
    LET vals == {labels[i] : i \in 1..Len(labels)}
        Occ(v) == Cardinality({i \in 1..Len(labels) : labels[i] = v})
        RECURSIVE Build(_)
        Build(V) ==
            IF V = {} THEN <<>>
            ELSE LET m == MaxOf(V) IN Append(Build(V \ {m}), Occ(m))
    IN  Build(vals)

\* np.argmax(counts): the first index of the largest entry (0-based)
ArgMax(counts) ==
    (CHOOSE i \in 1..Len(counts) :
        /\ \A j \in 1..Len(counts) : counts[j] <= counts[i]
        /\ \A j \in 1..(i - 1) : counts[j] < counts[i]) - 1

\* Picture.cluster, given the array shape and what cv2.kmeans returns for it
\* (km.labels: one label in 0..n_colors-1 per pixel, km.palette: the centers)
Cluster(shape, km) ==
    LET N == Reshape3(shape)
    IN  IF N < 0 THEN [err |-> "ValueError", palette |-> None, counts |-> None, dominant |-> None]
        ELSE IF N < n_colors
        THEN [err |-> "cv2.error", palette |-> None, counts |-> None, dominant |-> None]
        ELSE LET counts == UniqueCounts(km.labels)
             IN  [err |-> "", palette |-> km.palette, counts |-> counts,
                  dominant |-> km.palette[ArgMax(counts) + 1]]

\* what np.load gives for the file np.savez wrote for `pic`
StatsOf(o, pic) ==
    [path |-> PathStr(o, pic.path), counts |-> pic.counts,
     palette |-> pic.palette, dominant |-> pic.dominant]

\* the file np.savez(filename, ...) writes: '.npz' is appended unless the
\* name already ends with it
SavezFile(o, filename) ==
    PathOf(o, IF EndsWith(filename, NPZ) THEN filename ELSE filename \o NPZ)

\* the image files after np.savez wrote `file`: an image file at that place
\* is no longer an image
Overwrite(imgs, file) ==
    IF file \in DOMAIN imgs THEN [q \in DOMAIN imgs |-> IF q = file THEN None ELSE imgs[q]]
    ELSE imgs

\* Picture.export_stats(filename): the files of pic_stats afterwards
ExportStats(o, pic, filename, cach) ==
    LET file == SavezFile(o, filename)
    IN  [f \in DOMAIN cach \cup {file} |-> IF f = file THEN StatsOf(o, pic) ELSE cach[f]]

\* lines 36-43: the Picture read from the stats file
FromStats(o, imgs, cach, stats) ==
    IF stats \notin DOMAIN cach THEN Raised("FileNotFoundError", {}, FALSE)
    ELSE LET rec == cach[stats]
             p == PathOf(o, rec.path)
             img == MakeImage(imgs, p)
         IN  IF img.err # "" THEN Raised(img.err, {p}, FALSE)
             ELSE [err |-> "", reads |-> {p}, clustered |-> FALSE,
                   pic |-> [path |-> p, palette |-> rec.palette,
                            counts |-> rec.counts, dominant |-> rec.dominant]]

\* lines 45-47: the Picture clustered from the image at path
FromPath(imgs, path, km) ==
    LET img == MakeImage(imgs, path)
    IN  IF img.err # "" THEN Raised(img.err, {path}, FALSE)
        ELSE LET c == Cluster(img.shape, km)
             IN  IF c.err # "" THEN Raised(c.err, {path}, TRUE)
                 ELSE [err |-> "", reads |-> {path}, clustered |-> TRUE,
                       pic |-> [path |-> path, palette |-> c.palette,
                                counts |-> c.counts, dominant |-> c.dominant]]

\* a Picture.__init__ without the test of line 31: stats wins over path
PictureInitStatsWins(o, imgs, cach, path, stats, km) ==
    IF path = None /\ stats = None THEN Raised("ValueError", {}, FALSE)
    ELSE IF stats # None THEN FromStats(o, imgs, cach, stats)
    ELSE FromPath(imgs, path, km)

\* Picture.__init__(path, stats), with km what cv2.kmeans returns if it is
\* called.  `if path` is the truth value of the argument: None and the empty
\* text, both <<>> here, count as not given.
PictureInit(o, imgs, cach, path, stats, km) ==
    IF path # None /\ stats # None THEN Raised("ValueError", {}, FALSE)
    ELSE IF path = None /\ stats = None THEN Raised("ValueError", {}, FALSE)
    ELSE IF stats # None THEN FromStats(o, imgs, cach, stats)
    ELSE FromPath(imgs, path, km)

-----------------------------------------------------------------------------
(* Collection.__init__ *)

\* picture_folder='gui pictures/'
picture_folder == << <<"gui pictures">> >>

\* self.data_dir = self.picture_folder / 'pic_stats'
data_dir == Child(picture_folder, <<"pic_stats">>)

extensions == {<<".", "png">>, <<".", "jpg">>, <<".", "PNG">>, <<".", "JPG">>}

\* pic_set: the files under the folder whose suffix is an image extension
PicSet(imgs) == {p \in DOMAIN imgs : Suffix(p) \in extensions}

\* data_set: self.data_dir.glob('**/*.npz')
DataSet(cach) == {p \in DOMAIN cach : EndsWith(Name(p), NPZ) /\ Len(Name(p)) > Len(NPZ)}

\* path.with_suffix('').name
KeyOf(p) == Name(WithSuffix(p, <<>>))

\* the stats file a picture with a record is built from (line 144)
StatsFile(key) == WithSuffix(Child(data_dir, key), NPZ)

\* a file name in the picture folder itself where line 149 has self.data_dir
ExportNameBeside(key) == AsPosix(Child(picture_folder, key))

\* the file name handed to export_stats (line 149)
ExportName(key) == AsPosix(Child(data_dir, key))

\* the last loop (lines 151-153) evaluates the bound method
\* (self.data_dir / name).with_suffix(".npz").unlink for each name in `names`
\* and never calls it: no file is removed
DropStale(cach, names) == cach

NoRun == [labels |-> None, palette |-> None]

\* no constructor call yet
NoResult == [err |-> "none", pic |-> NoPicture, reads |-> {}, clustered |-> FALSE]

\* no turn of the loop over pic_set raised
NoFailure == [pic |-> None, before |-> <<>>]

\* no call Picture(path, stats) yet
NoCall == [path |-> None, stats |-> None, out |-> NoResult]

\* a turn that writes the record of a Picture whose constructor raised
LoopTurnWritingPart(o, pic, hit, r, st) ==
    IF r.err # ""
    THEN [st EXCEPT !.reads = @ \cup r.reads,
                    !.clustered = IF r.clustered THEN @ \cup {pic} ELSE @,
                    !.err = r.err,
                    !.failed = pic,
                    !.before = st.cache,
                    !.cache = IF hit THEN @
                              ELSE ExportStats(o, [NoPicture EXCEPT !.path = pic],
                                               ExportName(KeyOf(pic)), @)]
    ELSE IF hit
    THEN [st EXCEPT !.reads = @ \cup r.reads,
                    !.pictures = Append(@, r.pic)]
    ELSE [st EXCEPT !.reads = @ \cup r.reads,
                    !.clustered = @ \cup {pic},
                    !.pictures = Append(@, r.pic),
                    !.cache = ExportStats(o, r.pic, ExportName(KeyOf(pic)), @),
                    !.images = Overwrite(@, SavezFile(o, ExportName(KeyOf(pic)))),
                    !.exported = @ \cup {SavezFile(o, ExportName(KeyOf(pic)))}]

\* one turn of the loop over pic_set (lines 142-149) for the image file `pic`,
\* `r` being the outcome of the Picture(...) call of the turn
LoopTurn(o, pic, hit, r, st) ==
    IF r.err # ""
    THEN [st EXCEPT !.reads = @ \cup r.reads,
                    !.clustered = IF r.clustered THEN @ \cup {pic} ELSE @,
                    !.err = r.err,
                    !.failed = pic,
                    !.before = st.cache]
    ELSE IF hit
    THEN [st EXCEPT !.reads = @ \cup r.reads,
                    !.pictures = Append(@, r.pic)]
    ELSE [st EXCEPT !.reads = @ \cup r.reads,
                    !.clustered = @ \cup {pic},
                    !.pictures = Append(@, r.pic),
                    !.cache = ExportStats(o, r.pic, ExportName(KeyOf(pic)), @),
                    !.images = Overwrite(@, SavezFile(o, ExportName(KeyOf(pic)))),
                    !.exported = @ \cup {SavezFile(o, ExportName(KeyOf(pic)))}]

\* the Picture(...) call of the turn for `pic` (lines 144 and 147)
TurnPicture(o, imgs, cach, pic, hit, km) ==
    IF hit THEN PictureInit(o, imgs, cach, None, StatsFile(KeyOf(pic)), NoRun)
    ELSE PictureInit(o, imgs, cach, pic, None, km)

\* the loop over pic_set (lines 141-149), in the order `order` in which the set
\* is iterated; kms[pic] is what cv2.kmeans returns for pic.  The loop ends at
\* the first exception.
RECURSIVE SyncLoop(_, _, _, _, _)
SyncLoop(o, order, kms, dataNames, st) ==
    IF order = <<>> \/ st.err # "" THEN st
    ELSE SyncLoop(o, Tail(order), kms, dataNames,
                  LoopTurn(o, Head(order), KeyOf(Head(order)) \in dataNames,
                           TurnPicture(o, st.images, st.cache, Head(order),
                                       KeyOf(Head(order)) \in dataNames,
                                       kms[Head(order)]),
                           st))

\* Collection.__init__ on the folder `imgs` with pic_stats holding `cach`
CollectionInit(o, imgs, cach, order, kms) ==
    LET pic_set == PicSet(imgs)
        data_set == DataSet(cach)
        pic_names == {KeyOf(p) : p \in pic_set}
        data_names == {KeyOf(p) : p \in data_set}
        st0 == [images |-> imgs, cache |-> cach, pictures |-> <<>>, clustered |-> {},
                exported |-> {}, reads |-> {}, err |-> "", failed |-> None, before |-> <<>>]
        st == SyncLoop(o, order, kms, data_names, st0)
    IN  IF st.err # "" THEN st
        ELSE [st EXCEPT !.cache = DropStale(@, data_names \ pic_names)]

-----------------------------------------------------------------------------
(* The picture folder and the passes over it *)

File(dirs, name) == picture_folder \o dirs \o <<name>>

\* the image files a behaviour may put in the folder: two base names, the same
\* base name with another extension or in a subdirectory, and dotted names
ImageFiles ==
    { File(<<>>, <<"a", ".", "png">>),
      File(<<>>, <<"a", ".", "jpg">>),
      File(<< <<"sub">> >>, <<"a", ".", "png">>),
      File(<<>>, <<"b", ".", "png">>),
      File(<<>>, <<"a", ".", "x", ".", "png">>),
      File(<<>>, <<"a", ".", "npz", ".", "png">>) }

\* the arrays imread gives for the image files of a behaviour: a 1x5 RGB
\* image, a 2x2 RGB image (fewer pixels than n_colors, cv2.kmeans raises) and
\* a 1x5 single-channel image (make_image raises)
SyncShapes == {<<1, 5, 3>>, <<2, 2, 3>>, <<1, 5>>}

Red == <<255, 0, 0>>

Black == <<0, 0, 0>>

White == <<255, 255, 255>>

Green == <<0, 255, 0>>

Blue == <<0, 0, 255>>

\* a palette cv2.kmeans may return (n_colors centers)
Palette1 == <<Red, Black, White, Green, Blue>>

\* labels cv2.kmeans may return for N pixels: every cluster in turn, or every
\* pixel in the last cluster
RoundRobin(N) == [i \in 1..N |-> (i - 1) % n_colors]

AllLast(N) == [i \in 1..N |-> n_colors - 1]

\* what cv2.kmeans may return in a pass for the image file p
KMeansSync(imgs, p) ==
    LET img == MakeImage(imgs, p)
        N == IF img.err = "" THEN Reshape3(img.shape) ELSE -1
    IN  IF N < n_colors THEN {NoRun}
        ELSE {[labels |-> l, palette |-> Palette1] : l \in {RoundRobin(N), AllLast(N)}}

\* the orders in which a set may be iterated
Orders(S) ==
    {s \in [1..Cardinality(S) -> S] : \A i, j \in 1..Cardinality(S) : i # j => s[i] # s[j]}

\* the image files of a pass that have no record when it starts
Misses(imgs, cach) ==
    {p \in PicSet(imgs) : KeyOf(p) \notin {KeyOf(q) : q \in DataSet(cach)}}

Folders ==
    UNION {[S -> SyncShapes] : S \in {T \in SUBSET ImageFiles : Cardinality(T) <= MaxImages}}

Init ==
    /\ os \in {"posix", "nt"}
    /\ images \in Folders
    /\ cache = <<>>
    /\ pictures = <<>>
    /\ status = "none"
    /\ clustered = {}
    /\ exported = {}
    /\ reads = {}
    /\ since = <<>>
    /\ passes = 0
    /\ failed = NoFailure
    /\ kmeans = NoRun
    /\ made = NoResult
    /\ loaded = NoResult
    /\ built = NoCall
    /\ picked = <<>>
    /\ answers = <<>>

\* an image file is put in the folder
AddImage ==
    /\ Len(since) < MaxChanges
    /\ Cardinality(DOMAIN images) < MaxImages
    /\ \E p \in ImageFiles \ DOMAIN images : \E sh \in SyncShapes :
        /\ images' = [q \in DOMAIN images \cup {p} |-> IF q = p THEN sh ELSE images[q]]
        /\ since' = Append(since, [op |-> "add", path |-> p, after |-> passes])
    /\ UNCHANGED <<os, cache, pictures, status, clustered, exported, reads, passes, failed>>
    /\ UNCHANGED <<pictureVars, queryVars>>

\* an image file is removed from the folder
RemoveImage ==
    /\ Len(since) < MaxChanges
    /\ \E p \in DOMAIN images :
        /\ images' = [q \in DOMAIN images \ {p} |-> images[q]]
        /\ since' = Append(since, [op |-> "remove", path |-> p, after |-> passes])
    /\ UNCHANGED <<os, cache, pictures, status, clustered, exported, reads, passes, failed>>
    /\ UNCHANGED <<pictureVars, queryVars>>

\* the program is run: Collection(picture_folder=...) is constructed
Sync ==
    /\ passes < MaxPasses
    /\ LET misses == Misses(images, cache)
           runs == UNION {KMeansSync(images, q) : q \in misses}
       IN  \E order \in Orders(PicSet(images)) :
           \E kms \in {f \in [misses -> runs] : \A q \in misses : f[q] \in KMeansSync(images, q)} :
               \E r \in {CollectionInit(os, images, cache, order, kms)} :
                   /\ images' = r.images
                   /\ cache' = r.cache
                   /\ pictures' = IF r.err = "" THEN r.pictures ELSE <<>>
                   /\ status' = IF r.err = "" THEN "ok" ELSE "raised"
                   /\ clustered' = r.clustered
                   /\ exported' = r.exported
                   /\ reads' = r.reads
                   /\ failed' = [pic |-> r.failed, before |-> r.before]
    /\ passes' = passes + 1
    /\ UNCHANGED <<os, since, pictureVars, queryVars>>

Next == AddImage \/ RemoveImage \/ Sync

Spec == Init /\ [][Next]_vars

\* an image file is removed from the folder, at any time and any number of
\* times (`since` is not kept)
DeleteImage ==
    /\ \E p \in DOMAIN images : images' = [q \in DOMAIN images \ {p} |-> images[q]]
    /\ UNCHANGED <<os, cache, pictures, passVars, pictureVars, queryVars>>

NextRerun == Sync \/ DeleteImage

\* the program run again and again on a folder that only loses image files
SpecRerun == Init /\ [][NextRerun]_vars

-----------------------------------------------------------------------------
(* Claims about the passes *)

\* the folder changes made since the last pass
Recent == SelectSeq(since, LAMBDA c : c.after = passes)

\* a pass has just returned and the folder has not changed since
Synced == status = "ok" /\ Recent = <<>>

\* this step is a pass
IsPass == passes' = passes + 1

\* this step is a pass that returns, run after a pass that returned and exactly
\* one folder change `op` since
PassAfterOne(op) ==
    /\ status = "ok"
    /\ Len(Recent) = 1
    /\ Recent[1].op = op
    /\ IsPass
    /\ status' = "ok"

ImageKeys == {KeyOf(p) : p \in PicSet(images)}

CacheKeys == {KeyOf(p) : p \in DataSet(cache)}

\* the number of entries of the sequence s that satisfy Test
CountOf(s, Test(_)) == Cardinality({i \in 1..Len(s) : Test(s[i])})

\* the record file of the image file p
RecordOf(p) == SavezFile(os, ExportName(KeyOf(p)))

\* C1: after a pass has returned, the keys of the records in pic_stats are
\* exactly the keys of the image files: no record without an image, no image
\* without a record.
C1_CachedEqualsImages == Synced => CacheKeys = ImageKeys

\* C2: after a pass has returned, the collection holds exactly one Picture per
\* image file (its path names that file, no path occurs twice) and pic_stats
\* holds one record per image file.
C2_OneProfilePerImage ==
    Synced =>
        /\ \A p \in PicSet(images) : CountOf(pictures, LAMBDA x : x.path = p) = 1
        /\ Len(pictures) = Cardinality(PicSet(images))
        /\ Cardinality(DataSet(cache)) = Cardinality(PicSet(images))

\* C3: a pass run after a returned pass and the removal of one image file
\* removes exactly that image's record (the other records stay as they were)
\* and gives the former collection without the removed image's profile.
C3_DeletionPrunes ==
    [][PassAfterOne("remove") =>
        LET gone == Recent[1].path
        IN  /\ DOMAIN cache' = DOMAIN cache \ {RecordOf(gone)}
            /\ \A f \in DOMAIN cache' : cache'[f] = cache[f]
            /\ \A i \in 1..Len(pictures) :
                 LET x == pictures[i]
                 IN  CountOf(pictures', LAMBDA y : y = x)
                       = IF x.path = gone THEN 0 ELSE CountOf(pictures, LAMBDA y : y = x)
            /\ Len(pictures') = Len(pictures) - 1]_vars

\* C4: a pass run right after a returned pass, with no folder change between
\* them, calls cluster for no image, writes no record and leaves every record
\* as it was.
C4_SecondPassIdle ==
    [][(Synced /\ IsPass) => (clustered' = {} /\ exported' = {} /\ cache' = cache)]_vars

\* C5: a pass run after a returned pass and the addition of one image file
\* leaves the earlier records as they were, adds exactly one record and gives
\* a collection with exactly one profile more.
C5_AdditionAddsOne ==
    [][PassAfterOne("add") =>
        /\ Cardinality(DOMAIN cache') = Cardinality(DOMAIN cache) + 1
        /\ \A f \in DOMAIN cache : f \in DOMAIN cache' /\ cache'[f] = cache[f]
        /\ Len(pictures') = Len(pictures) + 1]_vars

\* C12: a pass reads no image file that has a record when the pass starts,
\* and a pass in which every image file has a record returns.
C12_HitReadsNoImage ==
    [][IsPass =>
        /\ reads' \subseteq Misses(images, cache)
        /\ (Misses(images, cache) = {} => status' = "ok")]_vars

\* the record has a path, n_colors palette entries, counts and a dominant colour
Complete(rec) ==
    /\ rec.path # <<>>
    /\ Len(rec.palette) = n_colors
    /\ rec.counts # <<>>
    /\ rec.dominant # <<>>

\* C14: when Picture(path=...) raises for an image without a record, the pass
\* raises, pic_stats is as it was just before that image's turn (no record
\* added, none changed, the records written earlier in the pass included) and
\* every record in it is complete.
C14_FailureKeepsRecords ==
    [][(IsPass /\ failed'.pic \in Misses(images, cache)) =>
        /\ status' = "raised"
        /\ cache' = failed'.before
        /\ \A f \in DOMAIN cache' : Complete(cache'[f])]_vars

\* C14 witness: a pass raised in cluster for one image after it had written
\* the record of another
C14_RaisedAfterWrite ==
    /\ status = "raised"
    /\ failed.pic \in clustered
    /\ exported # {}
    /\ \A f \in exported : cache[f].path # PathStr(os, failed.pic)

\* the file f of pic_stats differs between the record sets c and d
Differs(f, c, d) ==
    \/ (f \in DOMAIN c) # (f \in DOMAIN d)
    \/ f \in DOMAIN c /\ f \in DOMAIN d /\ c[f] # d[f]

\* C15: a pass leaves the image files of the folder and what they hold as
\* they were; every file it writes or removes is a .npz file in pic_stats.
C15_ImagesUntouched ==
    [][IsPass =>
        /\ images' = images
        /\ \A f \in DOMAIN cache \cup DOMAIN cache' :
              Differs(f, cache, cache') => (Front(f) = data_dir /\ Suffix(f) = NPZ)]_vars

\* C15 witness: a pass over two image files returned and wrote a record
C15_WroteRecords ==
    /\ status = "ok"
    /\ exported # {}
    /\ Cardinality(DOMAIN images) > 1

-----------------------------------------------------------------------------
(* One Picture: built from an image, written to a record, read back *)

\* the largest height and width of the image
MaxSide == 3

\* the arrays imread gives: <<h, w>> (one channel), <<h, w, 3>>, <<h, w, 4>>
Shapes ==
    {<<h, w>> : h, w \in 1..MaxSide}
        \cup {<<h, w, c>> : h, w \in 1..MaxSide, c \in {3, 4}}

PicturePaths ==
    { File(<<>>, <<"a", ".", "png">>), File(<< <<"sub">> >>, <<"b", ".", "x", ".", "jpg">>) }

\* the label sequences of length N over lo..n_colors-1 in nondecreasing order
\* (np.unique counts the occurrences of a label, wherever they are)
RECURSIVE Labelings(_, _)
Labelings(N, lo) ==
    IF N = 0 THEN {<<>>}
    ELSE UNION {{<<v>> \o t : t \in Labelings(N - 1, v)} : v \in lo..(n_colors - 1)}

\* what cv2.kmeans may return for the image file p: any assignment of its
\* pixels to the n_colors clusters, some of them possibly empty
KMeansAll(imgs, p) ==
    LET img == MakeImage(imgs, p)
        N == IF img.err = "" THEN Reshape3(img.shape) ELSE -1
    IN  IF N < n_colors THEN {NoRun}
        ELSE {[labels |-> l, palette |-> Palette1] : l \in Labelings(N, 0)}

InitPicture ==
    /\ os \in {"posix", "nt"}
    /\ \E p \in PicturePaths, sh \in Shapes :
        /\ images = [q \in {p} |-> sh]
        /\ kmeans \in KMeansAll(images, p)
    /\ cache = <<>>
    /\ pictures = <<>>
    /\ status = "none"
    /\ clustered = {}
    /\ exported = {}
    /\ reads = {}
    /\ since = <<>>
    /\ passes = 0
    /\ failed = NoFailure
    /\ made = NoResult
    /\ loaded = NoResult
    /\ built = NoCall
    /\ picked = <<>>
    /\ answers = <<>>

\* Picture(path=p)
MakePicture ==
    /\ made = NoResult
    /\ \E p \in DOMAIN images : made' = PictureInit(os, images, cache, p, None, kmeans)
    /\ UNCHANGED <<os, images, cache, pictures, passVars, kmeans, loaded, built, queryVars>>

\* picture.export_stats(...), as line 149 calls it
ExportPicture ==
    /\ made.err = ""
    /\ DOMAIN cache = {}
    /\ cache' = ExportStats(os, made.pic, ExportName(KeyOf(made.pic.path)), cache)
    /\ UNCHANGED <<os, images, pictures, passVars, pictureVars, queryVars>>

\* the picture folder, pic_stats included, is taken to a host of the other kind
CarryFolder ==
    /\ DOMAIN cache # {}
    /\ loaded = NoResult
    /\ os' \in {"posix", "nt"} \ {os}
    /\ UNCHANGED <<images, cache, pictures, passVars, pictureVars, queryVars>>

\* Picture(stats=f) for the record file written
LoadPicture ==
    /\ loaded = NoResult
    /\ \E f \in DOMAIN cache : loaded' = PictureInit(os, images, cache, None, f, NoRun)
    /\ UNCHANGED <<os, images, cache, pictures, passVars, kmeans, made, built, queryVars>>

NextPicture == MakePicture \/ ExportPicture \/ CarryFolder \/ LoadPicture

SpecPicture == InitPicture /\ [][NextPicture]_vars

-----------------------------------------------------------------------------
(* Claims about one Picture *)

\* the number of pixels cv2.kmeans put in cluster c
ClusterSize(c) == Cardinality({i \in 1..Len(kmeans.labels) : kmeans.labels[i] = c})

\* the first of the clusters that hold the most pixels
LargestCluster ==
    CHOOSE c \in 0..(n_colors - 1) :
        /\ \A d \in 0..(n_colors - 1) : ClusterSize(d) <= ClusterSize(c)
        /\ \A d \in 0..(c - 1) : ClusterSize(d) < ClusterSize(c)

\* the shape of the image file the Picture was made from
MadeShape == images[made.pic.path]

\* C6: the Picture read back from the record export_stats wrote equals the
\* Picture that was written in path, palette, counts and dominant, whatever
\* the path convention of the host that wrote the record.
C6_RoundTrip ==
    loaded # NoResult => (loaded.err = "" /\ loaded.pic = made.pic)

\* C9: the dominant colour of every profile, clustered or read from a record,
\* is palette[argmax(counts)], the centre of the first of the clusters that
\* hold the most pixels.
C9_DominantIsLargest ==
    \A r \in {made, loaded} :
        (r # NoResult /\ r.err = "") =>
            /\ r.pic.dominant = r.pic.palette[ArgMax(r.pic.counts) + 1]
            /\ r.pic.dominant = kmeans.palette[LargestCluster + 1]

\* C10: the counts of a clustered profile add up to the number of pixels of
\* the image (width * height), whatever clusters the pixels were put in.
C10_CountsSumToPixels ==
    (made # NoResult /\ made.err = "") =>
        Sum(made.pic.counts) = MadeShape[1] * MadeShape[2]

\* C10 witness: a profile was clustered with some cluster left empty
C10_EmptyClusterSeen ==
    /\ made # NoResult
    /\ made.err = ""
    /\ \E c \in 0..(n_colors - 1) : ClusterSize(c) = 0
    /\ \E c \in 0..(n_colors - 1) : ClusterSize(c) > 1

\* C13: a clustered profile has n_colors palette entries and n_colors counts,
\* and counts[i] is the number of pixels cv2.kmeans put in the cluster whose
\* centre is palette[i], 0 for a cluster without pixels.
C13_CountsAligned ==
    (made # NoResult /\ made.err = "") =>
        /\ Len(made.pic.palette) = n_colors
        /\ Len(made.pic.counts) = n_colors
        /\ \A c \in 0..(n_colors - 1) : made.pic.counts[c + 1] = ClusterSize(c)

-----------------------------------------------------------------------------
(* Collection.get_closest *)

\* min_distance = 1e9
BIG == 1000000000

\* the value np.float32(None) and every distance computed from it: nan
NaN == -1

\* the square of np.linalg.norm(color - np.float32(other))
Norm2(c, other) ==
    IF other = None THEN NaN
    ELSE (c[1] - other[1]) * (c[1] - other[1])
         + (c[2] - other[2]) * (c[2] - other[2])
         + (c[3] - other[3]) * (c[3] - other[3])

\* min(list): the first of the smallest entries; nan when the entries are nan
MinOf(ds) ==
    LET RECURSIVE M(_, _)
        M(i, best) ==
            IF i > Len(ds) THEN best
            ELSE M(i + 1, IF ds[i] # NaN /\ best # NaN /\ ds[i] < best THEN ds[i] ELSE best)
    IN  M(2, ds[1])

\* Picture.get_distance_to(other), squared: distances are compared, and
\* x < y exactly when x*x < y*y
GetDistanceTo(pic, other) ==
    MinOf([k \in 1..Len(pic.palette) |-> Norm2(pic.palette[k], other)])

\* distance <= min_distance where line 164 has <
CloserOrEqual(distance, st) ==
    /\ distance # NaN
    /\ IF st.closest = 0 THEN distance \div BIG < BIG ELSE distance <= st.min

\* distance < min_distance (line 164); min_distance is 1e9 until a picture is
\* taken, and d < 1e9 exactly when d*d \div 1e9 < 1e9
Closer(distance, st) ==
    /\ distance # NaN
    /\ IF st.closest = 0 THEN distance \div BIG < BIG ELSE distance < st.min

\* the loop of get_closest: st.closest is the index of `closest` in
\* self.pictures, 0 for None
RECURSIVE ClosestLoop(_, _, _, _)
ClosestLoop(pics, i, other, st) ==
    IF i > Len(pics) THEN st
    ELSE LET distance == GetDistanceTo(pics[i], other)
         IN  ClosestLoop(pics, i + 1, other,
                         IF Closer(distance, st) THEN [min |-> distance, closest |-> i] ELSE st)

\* a get_closest that takes the picture it found out of self.pictures
GetClosestTaking(o, pics, other) ==
    LET st == ClosestLoop(pics, 1, other, [min |-> 0, closest |-> 0])
    IN  IF o # "nt" \/ st.closest = 0
        THEN [err |-> "AttributeError", path |-> None, pictures |-> pics]
        ELSE [err |-> "", path |-> pics[st.closest].path,
              pictures |-> [j \in 1..(Len(pics) - 1) |->
                               IF j < st.closest THEN pics[j] ELSE pics[j + 1]]]

\* Collection.get_closest, with `other` the colour askcolor gives (None when
\* the dialog is cancelled).  os.startfile exists on Windows only, and
\* closest.path fails when closest is None.  The viewer os.startfile starts
\* is outside the program.
GetClosest(o, pics, other) ==
    LET st == ClosestLoop(pics, 1, other, [min |-> 0, closest |-> 0])
    IN  IF o # "nt" \/ st.closest = 0
        THEN [err |-> "AttributeError", path |-> None, pictures |-> pics]
        ELSE [err |-> "", path |-> pics[st.closest].path, pictures |-> pics]

\* the largest number of pictures in the collection queried
MaxPictures == 2

\* the largest number of queries of a behaviour
MaxQueries == 3

DarkRed == <<200, 0, 0>>

NearRed == <<250, 5, 5>>

\* profiles of a collection: Red is the nearest entry to NearRed and not
\* dominant; DarkRed is dominant and farther from NearRed; White is in all
MatchProfiles ==
    { [palette |-> <<Black, Red, White, White, White>>,
       counts |-> <<1000, 10, 1, 1, 1>>, dominant |-> Black],
      [palette |-> <<White, DarkRed, White, White, White>>,
       counts |-> <<1, 5, 1, 1, 1>>, dominant |-> DarkRed],
      [palette |-> <<Green, Blue, White, Green, Blue>>,
       counts |-> <<2, 1, 1, 1, 1>>, dominant |-> Green] }

\* the colours the user may pick
Targets == {NearRed, Black, White}

\* the i-th file: p.png, pp.png, ...
MatchPath(i) == File(<<>>, [k \in 1..i |-> "p"] \o <<".", "png">>)

\* the collections queried: up to MaxPictures profiles, each with its own path
MatchCollections ==
    UNION {{[i \in 1..n |->
                [path |-> MatchPath(i), palette |-> f[i].palette,
                 counts |-> f[i].counts, dominant |-> f[i].dominant]]
            : f \in [1..n -> MatchProfiles]} : n \in 0..MaxPictures}

InitMatch ==
    /\ os \in {"posix", "nt"}
    /\ images = <<>>
    /\ cache = <<>>
    /\ pictures \in MatchCollections
    /\ status = "ok"
    /\ clustered = {}
    /\ exported = {}
    /\ reads = {}
    /\ since = <<>>
    /\ passes = 0
    /\ failed = NoFailure
    /\ kmeans = NoRun
    /\ made = NoResult
    /\ loaded = NoResult
    /\ built = NoCall
    /\ picked = <<>>
    /\ answers = <<>>

\* collection.get_closest() is called and the user picks a colour or cancels
Query ==
    /\ Len(picked) < MaxQueries
    /\ \E other \in Targets \cup {None} :
        LET r == GetClosest(os, pictures, other)
        IN  /\ picked' = Append(picked, other)
            /\ answers' = Append(answers, [err |-> r.err, path |-> r.path])
            /\ pictures' = r.pictures
    /\ UNCHANGED <<os, images, cache, passVars, pictureVars>>

NextMatch == Query

SpecMatch == InitMatch /\ [][NextMatch]_vars

-----------------------------------------------------------------------------
(* Claims about get_closest *)

\* the colour of the last query
Target == picked[Len(picked)]

\* d is the distance from picture i to the colour `other`: the least distance
\* from `other` to an entry of its palette
IsDistance(d, i, other) ==
    /\ \E k \in 1..Len(pictures[i].palette) : d = Norm2(pictures[i].palette[k], other)
    /\ \A k \in 1..Len(pictures[i].palette) : d <= Norm2(pictures[i].palette[k], other)

\* picture j is at least as far from `other` as picture i: i has an entry
\* that is no farther than any entry of j
NotNearer(j, i, other) ==
    \E k \in 1..Len(pictures[i].palette) : \A l \in 1..Len(pictures[j].palette) :
        Norm2(pictures[i].palette[k], other) <= Norm2(pictures[j].palette[l], other)

\* picture j is farther from `other` than picture i
Farther(j, i, other) ==
    \E k \in 1..Len(pictures[i].palette) : \A l \in 1..Len(pictures[j].palette) :
        Norm2(pictures[i].palette[k], other) < Norm2(pictures[j].palette[l], other)

\* the outcome of the last query
Answer == answers[Len(answers)]

\* C7: a query that returns gives the path of the picture at the least
\* distance from the picked colour, the distance of a picture being that of
\* its nearest palette entry; of several such pictures, the first in
\* Collection.pictures.
C7_ClosestEntryFirst ==
    (answers # <<>> /\ Answer.err = "") =>
        \E i \in 1..Len(pictures) :
            /\ Answer.path = pictures[i].path
            /\ \A j \in 1..Len(pictures) : NotNearer(j, i, Target)
            /\ \A j \in 1..(i - 1) : Farther(j, i, Target)

\* C7 witness: a query returned where two pictures are at the least distance
\* and the nearest entry of the first is not its dominant colour
C7_TieOnMinorEntry ==
    /\ answers # <<>>
    /\ Answer.err = ""
    /\ Len(pictures) = 2
    /\ NotNearer(1, 2, Target) /\ NotNearer(2, 1, Target)
    /\ ~IsDistance(Norm2(pictures[1].dominant, Target), 1, Target)
    /\ Answer.path = pictures[1].path

\* C8: a query leaves Collection.pictures and every profile as they were, and
\* gives the outcome of every earlier query with the same colour.
C8_SameQuerySameAnswer ==
    [][(Len(picked') = Len(picked) + 1) =>
          /\ pictures' = pictures
          /\ \A i \in 1..Len(picked) :
                picked[i] = picked'[Len(picked')] => answers[i] = answers'[Len(answers')]]_vars

\* C8 witness: a colour was picked again after another colour was picked in
\* between, and the queries for it returned a path
C8_Repeated ==
    /\ Len(picked) = 3
    /\ picked[1] = picked[3]
    /\ picked[1] # picked[2]
    /\ answers[2].err = ""
    /\ answers[3].err = ""
    /\ answers[3].path # answers[2].path

-----------------------------------------------------------------------------
(* Picture(path, stats) called with any arguments *)

\* a profile in a record
Profile1(p) == [path |-> p, palette |-> Palette1, counts |-> <<1, 1, 1, 1, 1>>, dominant |-> Red]

\* a stats file that does not exist
NoSuchStats == StatsFile(<<"none">>)

\* one image file, with or without a record of it in pic_stats
InitConstruct ==
    /\ os \in {"posix", "nt"}
    /\ \E p \in PicturePaths, sh \in Shapes :
        /\ images = [q \in {p} |-> sh]
        /\ kmeans \in KMeansSync(images, p)
        /\ cache \in {<<>>, ExportStats(os, Profile1(p), ExportName(KeyOf(p)), <<>>)}
    /\ pictures = <<>>
    /\ status = "none"
    /\ clustered = {}
    /\ exported = {}
    /\ reads = {}
    /\ since = <<>>
    /\ passes = 0
    /\ failed = NoFailure
    /\ made = NoResult
    /\ loaded = NoResult
    /\ built = NoCall
    /\ picked = <<>>
    /\ answers = <<>>

\* Picture(path=path, stats=stats), each argument given or not
Construct ==
    /\ built = NoCall
    /\ \E path \in PicturePaths \cup {None}, stats \in DOMAIN cache \cup {NoSuchStats, None} :
        built' = [path |-> path, stats |-> stats,
                  out |-> PictureInit(os, images, cache, path, stats, kmeans)]
    /\ UNCHANGED <<os, images, cache, pictures, passVars, kmeans, made, loaded, queryVars>>

NextConstruct == Construct

SpecConstruct == InitConstruct /\ [][NextConstruct]_vars

\* C11: Picture(path, stats) with both arguments or with neither raises
\* ValueError with no image read, no clustering run and no profile field set;
\* with exactly one of the two it does not raise ValueError.
C11_BothOrNeitherRaises ==
    built # NoCall =>
        IF (built.path # None) = (built.stats # None)
        THEN built.out = Raised("ValueError", {}, FALSE)
        ELSE built.out.err # "ValueError"

\* C11 witness: Picture was called with a path of an image and an existing
\* stats file, and raised
C11_BothGiven ==
    /\ built.path \in DOMAIN images
    /\ built.stats \in DOMAIN cache
    /\ built.out.err = "ValueError"

====
